---------------------------- MODULE Spec2Model ----------------------------
(***************************************************************************)
(* lib/container_podman_stats.c of nagios-plugins-linux: the two JSON      *)
(* field extractors (json_parser_list, json_parser_stats) and the          *)
(* aggregation loop podman_stats that drives them.                         *)
(*                                                                         *)
(* One run of podman_stats is modelled.  Every loop iteration of the two   *)
(* token walks is one action; the varlink replies are inputs drawn from    *)
(* finite sets of documents.  Strings are sequences of one-character       *)
(* strings, so that prefixes and digits are computed, not assumed.         *)
(* Sequences are 1-based: the C index i corresponds to i + 1 here.         *)
(***************************************************************************)
EXTENDS Integers, Sequences, FiniteSets, TLC

VARIABLES
  pc,          \* position of the run: start, list, loop, stats, done, fatal
  err,         \* the error that ended the run, "none" while it runs
  image_name,  \* podman_stats' image argument ([set |-> FALSE] is NULL)
  tokens,      \* jsmntok_t array of the walk in progress
  i,           \* loop index of the walk in progress
  level,       \* the walk's depth counter
  vals,        \* vals[] of the walk in progress
  hashtable,   \* the counter filled by json_parser_list
  ev,          \* what the last list iteration printed with dbg (flush record)
  nflush,      \* number of "new container found" flushes of the list pass
  putids,      \* the full ids the list pass has passed to counter_put
  list_root,   \* whether the list reply held the string "containers" at all
  containers,  \* podman_stats' local: number of unique keys
  j,           \* podman_stats' loop index
  stats,       \* container_stats_t of the current item
  tot_memory,  \* *tot_memory
  perfdata,    \* lines written to the perfdata stream
  usages,      \* the mem_usage each json_parser_stats call has returned
  fetches,     \* podman_varlink_get calls made so far, in order
  status,      \* *status, the summary, once produced
  oob          \* whether a walk has read tokens[] at an index >= ntoken

vars == <<pc, err, image_name, tokens, i, level, vals, hashtable, ev,
          nflush, putids, list_root, containers, j, stats, tot_memory,
          perfdata, usages, fetches, status, oob>>

-----------------------------------------------------------------------------
(* Bounds of the model *)

\* largest number of container objects in a generated list document
MaxContainers == 2

-----------------------------------------------------------------------------
(* Text *)

T_containers == <<"c","o","n","t","a","i","n","e","r","s">>
T_container == <<"c","o","n","t","a","i","n","e","r">>
T_containerrunning ==
  <<"c","o","n","t","a","i","n","e","r","r","u","n","n","i","n","g">>
T_id == <<"i","d">>
T_image == <<"i","m","a","g","e">>
T_imageid == <<"i","m","a","g","e","i","d">>
T_names == <<"n","a","m","e","s">>
T_namespaces == <<"n","a","m","e","s","p","a","c","e","s">>
T_pid == <<"p","i","d">>
T_host == <<"h","o","s","t">>
T_bogus == <<"b","o","g","u","s">>
T_true == <<"t","r","u","e">>
T_false == <<"f","a","l","s","e">>
T_mem_limit == <<"m","e","m","_","l","i","m","i","t">>
T_mem_usage == <<"m","e","m","_","u","s","a","g","e">>
T_name == <<"n","a","m","e">>
T_tags == <<"t","a","g","s">>
T_srv1 == <<"s","r","v","1">>
T_srv2 == <<"s","r","v","2">>
T_redis == <<"r","e","d","i","s">>
T_nginx == <<"n","g","i","n","x">>
T_red == <<"r","e","d">>
T_1 == <<"1">>
T_junk == <<"?","?">>

\* three full container ids; the first two share their first eight characters
Id_a1 == <<"a","a","a","a","a","a","a","a","1">>
Id_a2 == <<"a","a","a","a","a","a","a","a","2">>
Id_b1 == <<"b","b","b","b","b","b","b","b","1">>


-----------------------------------------------------------------------------
(* JSON documents and their tokens *)

\* a JSON value as jsmn sees it: a key is a string whose single child is its
\* value, an object's children are its keys, an array's its elements
Str(s) == [type |-> "STRING", text |-> s, kids |-> <<>>]
Prim(s) == [type |-> "PRIMITIVE", text |-> s, kids |-> <<>>]
Key(s, v) == [type |-> "STRING", text |-> s, kids |-> <<v>>]
Obj(members) == [type |-> "OBJECT", text |-> <<"{">>, kids |-> members]
Arr(elems) == [type |-> "ARRAY", text |-> <<"[">>, kids |-> elems]

\* a reply text: the top-level values it holds, or text that is not JSON
Doc(roots) == [valid |-> TRUE, roots |-> roots]
NotJson == [valid |-> FALSE, roots |-> <<>>]

RECURSIVE Flatten(_)
RECURSIVE FlattenSeq(_)
\* the tokens of one value, in document order; size is the number of children
Flatten(node) ==
  <<[type |-> node.type, text |-> node.text, size |-> Len(node.kids)]>>
    \o FlattenSeq(node.kids)
FlattenSeq(nodes) ==
  IF nodes = <<>> THEN <<>>
  ELSE Flatten(Head(nodes)) \o FlattenSeq(Tail(nodes))

\* json_tokenise: the token array, or NULL (<<>> with ok FALSE)
json_tokenise(text) ==
  IF text.valid THEN [ok |-> TRUE, tokens |-> FlattenSeq(text.roots)]
  ELSE [ok |-> FALSE, tokens |-> <<>>]

\* json_token_streq: 0 when the token is a string with exactly this text
json_token_streq(t, s) ==
  IF t.type = "STRING" /\ t.text = s THEN 0 ELSE -1

\* json_token_tostr: the token's text, as a string that remembers its token
json_token_tostr(toks, k) == [tok |-> k, text |-> toks[k].text]

\* the NULL char pointer
NULL == [tok |-> 0, text |-> <<>>]

RECURSIVE SubEnd(_, _)
RECURSIVE SkipKids(_, _, _)
\* index of the last token of the value that starts at token k
SubEnd(toks, k) == SkipKids(toks, k, toks[k].size)
\* index of the last token after skipping n values that follow token p
SkipKids(toks, p, n) ==
  IF n = 0 THEN p ELSE SkipKids(toks, SubEnd(toks, p + 1), n - 1)

\* the tokens enclosing token k, nearest last
Enclosing(toks, k) == {m \in 1..(k - 1) : SubEnd(toks, m) >= k}
\* number of objects open around token k
RealDepth(toks, k) ==
  Cardinality({m \in Enclosing(toks, k) : toks[m].type = "OBJECT"})
\* whether token k is a key of an object: its nearest enclosing token is one
IsKey(toks, k) ==
  /\ Enclosing(toks, k) # {}
  /\ \E m \in Enclosing(toks, k) :
       /\ \A n \in Enclosing(toks, k) : n <= m
       /\ toks[m].type = "OBJECT"

-----------------------------------------------------------------------------
(* The replies podman_varlink_get can give *)

Perms3 == {<<1,2,3>>, <<1,3,2>>, <<2,1,3>>, <<2,3,1>>, <<3,1,2>>, <<3,2,1>>}

\* one container object of a list reply.  order permutes the three keys the
\* extractor looks for; extra adds or removes members around them
ContainerObj(order, running, id, image, extra) ==
  LET base == <<Key(T_containerrunning, Prim(running)),
                Key(T_id, Str(id)), Key(T_image, Str(image))>>
      m == [k \in 1..3 |-> base[order[k]]]
  IN Obj(CASE extra = "none" -> m
           [] extra = "names" -> <<Key(T_names, Str(T_srv1))>> \o m
           [] extra = "ns" ->
                <<m[1], Key(T_namespaces, Obj(<<Key(T_pid, Str(T_host))>>)),
                  m[2], Key(T_imageid, Str(Id_b1)), m[3]>>
           [] extra = "stray" -> <<Key(T_names, Str(T_id))>> \o m
           [] extra = "dup" -> <<Key(T_id, Str(Id_a2))>> \o m
           [] extra = "noimage" -> <<base[1], base[2]>>)

\* the three keys in every order
FamOrder ==
  {ContainerObj(o, T_true, id, T_redis, "none") :
     o \in Perms3, id \in {Id_a1, Id_b1}}
\* every combination of values, keys in the order podman sends them
FamValue ==
  {ContainerObj(<<1,2,3>>, r, id, img, "none") :
     r \in {T_true, T_false}, id \in {Id_a1, Id_a2, Id_b1},
     img \in {T_redis, T_nginx}}
\* other members around the three keys: harmless ones, a string value that
\* reads like a key, a key given twice, a key left out
FamOdd ==
  {ContainerObj(<<1,2,3>>, T_true, id, T_redis, x) :
     id \in {Id_a1, Id_b1},
     x \in {"none", "names", "ns", "stray", "dup", "noimage"}}

\* the sequences of at most n elements of S
SeqUpTo(S, n) == UNION {[1..k -> S] : k \in 0..n}

ListOf(cs) == Doc(<<Obj(<<Key(T_containers, Arr(cs))>>)>>)
PlainObj == ContainerObj(<<1,2,3>>, T_true, Id_a1, T_redis, "none")
OtherObj == ContainerObj(<<1,2,3>>, T_true, Id_b1, T_redis, "none")

\* well-shaped list replies: {"containers": [ ... ]}
ShapedListDocs ==
  {ListOf(cs) : cs \in SeqUpTo(FamOrder, MaxContainers)
                         \cup SeqUpTo(FamValue, MaxContainers)
                         \cup SeqUpTo(FamOdd, MaxContainers)}

\* list replies whose root is not the expected one
OddListDocs ==
  { Doc(<<Obj(<<>>)>>),                                    \* {}
    Doc(<<Prim(T_1)>>),                                    \* 1
    Doc(<<Arr(<<PlainObj>>)>>),                            \* [ {...} ]
    Doc(<<Str(T_bogus)>>),                                 \* "bogus"
    Doc(<<Str(T_id)>>),                                    \* "id"
    Doc(<<Obj(<<Key(T_container, Arr(<<PlainObj>>))>>)>>), \* wrong root key
    Doc(<<Obj(<<Key(T_id, Arr(<<PlainObj>>))>>)>>),        \* root key "id"
    \* {"containers": [ {...} ], "bogus": [ {...} ]}
    Doc(<<Obj(<<Key(T_containers, Arr(<<PlainObj>>)),
                Key(T_bogus, Arr(<<OtherObj>>))>>)>>),
    \* {"containers": [], "bogus": [ {...} ]}
    Doc(<<Obj(<<Key(T_containers, Arr(<<>>)),
                Key(T_bogus, Arr(<<OtherObj>>))>>)>>),
    \* two sibling top-level objects
    Doc(<<Obj(<<Key(T_containers, Arr(<<PlainObj>>))>>),
          Obj(<<Key(T_bogus, Arr(<<OtherObj>>))>>)>>),
    Doc(<<Obj(<<>>), Obj(<<Key(T_bogus, Arr(<<OtherObj>>))>>)>>),
    \* a container without "image", then one that starts with "image"
    ListOf(<<ContainerObj(<<1,2,3>>, T_true, Id_a1, T_redis, "noimage"),
             ContainerObj(<<3,1,2>>, T_false, Id_b1, T_nginx, "none")>>),
    \* the third key name of a container is the last token of the reply
    ListOf(<<Obj(<<Key(T_containerrunning, Prim(T_true)),
                   Key(T_id, Str(Id_a1)),
                   Key(T_tags, Arr(<<Str(T_image)>>))>>)>>),
    \* {"containers": ["id"]}: the last token is a key name
    Doc(<<Obj(<<Key(T_containers, Arr(<<Str(T_id)>>))>>)>>),
    NotJson }

ListDocs == ShapedListDocs \cup OddListDocs

\* one stats reply: {"container": { members }}
StatsOf(members) == Doc(<<Obj(<<Key(T_container, Obj(members))>>)>>)
M_limit(n) == Key(T_mem_limit, Prim(n))
M_usage(n) == Key(T_mem_usage, Prim(n))
M_name(s) == Key(T_name, Str(s))
N_8310784 == <<"8","3","1","0","7","8","4">>
N_8232525 == <<"8","2","3","2","5","2","5">>
N_2999 == <<"2","9","9","9">>
N_1x == <<"1","x">>

StatsDocs ==
  { StatsOf(<<M_limit(N_8232525), M_usage(N_8310784), M_name(T_srv1)>>),
    StatsOf(<<M_name(T_srv2), M_usage(N_2999), M_limit(N_8232525)>>),
    StatsOf(<<M_limit(N_8232525), M_usage(N_2999)>>),        \* no name
    StatsOf(<<M_name(T_srv1)>>),                             \* no numbers
    StatsOf(<<M_name(T_srv1), M_usage(N_1x)>>),              \* not a number
    StatsOf(<<M_limit(N_1x), M_name(T_srv1)>>),
    StatsOf(<<M_name(T_srv1), M_name(T_srv2), M_usage(N_2999)>>),
    StatsOf(<<>>),
    Doc(<<Obj(<<>>)>>),                                      \* {}
    Doc(<<Prim(T_1)>>),
    Doc(<<Arr(<<>>)>>),
    Doc(<<Str(T_bogus)>>),
    Doc(<<Obj(<<Key(T_containers, Obj(<<M_name(T_srv1)>>))>>)>>),
    Doc(<<Obj(<<Key(T_name, Str(T_srv1))>>)>>),              \* {"name": ...}
    \* {"container": {...}, "bogus": 1}
    Doc(<<Obj(<<Key(T_container, Obj(<<M_name(T_srv1)>>)),
                Key(T_bogus, Prim(T_1))>>)>>),
    \* two sibling top-level objects
    Doc(<<Obj(<<Key(T_container, Obj(<<M_name(T_srv1)>>))>>),
          Obj(<<Key(T_bogus, Prim(T_1))>>)>>),
    \* {"container": {"name": "srv1", "tags": ["mem_limit"]}}
    StatsOf(<<M_name(T_srv1), Key(T_tags, Arr(<<Str(T_mem_limit)>>))>>),
    NotJson }

\* podman_varlink_get: ret < 0 on failure, else the reply text
Replies(docs) ==
  {[ret |-> 0, json |-> d] : d \in docs} \cup {[ret |-> -1, json |-> NotJson]}

\* what the caller's variable behind tot_memory may hold when podman_stats
\* is called
CallerTotals == {0, 4096}

\* the image argument: NULL, or a name
ImageNames ==
  {[set |-> FALSE, text |-> <<>>], [set |-> TRUE, text |-> T_redis],
   [set |-> TRUE, text |-> T_red]}

-----------------------------------------------------------------------------
(* Helpers of the library the two extractors call *)

\* PODMAN_SHORTID_LEN - 1: the number of characters of a short id
ShortIdLen == 8

\* podman_shortid: the first ShortIdLen characters; fails on a shorter id
podman_shortid(id) ==
  IF Len(id) >= ShortIdLen
  THEN [ok |-> TRUE, text |-> SubSeq(id, 1, ShortIdLen)]
  ELSE [ok |-> FALSE, text |-> <<>>]

\* counter_create: the empty counter
counter_create == [keys |-> <<>>, uniq |-> 0]

\* whether key is one of the counter's keys
counter_has(ht, key) == \E k \in 1..Len(ht.keys) : ht.keys[k] = key

\* counter_put: a new key goes last; a present key changes neither the
\* number of unique keys nor their order
counter_put(ht, key) ==
  IF counter_has(ht, key) THEN ht
  ELSE [keys |-> Append(ht.keys, key), uniq |-> ht.uniq + 1]

\* counter_get_unique_elements
counter_get_unique_elements(ht) == ht.uniq

\* podman_array_is_full: no slot is NULL
podman_array_is_full(vs) == \A k \in 1..Len(vs) : vs[k] # NULL

Digits == <<"0","1","2","3","4","5","6","7","8","9">>
IsDigit(c) == \E k \in 1..10 : Digits[k] = c
DigitVal(c) == (CHOOSE k \in 1..10 : Digits[k] = c) - 1

RECURSIVE DecVal(_)
\* the number a string of digits denotes
DecVal(s) ==
  IF s = <<>> THEN 0
  ELSE 10 * DecVal(SubSeq(s, 1, Len(s) - 1)) + DigitVal(s[Len(s)])

\* strtol_or_err: the number, or failure on text that is not one
strtol_or_err(s) ==
  IF s # <<>> /\ \A k \in 1..Len(s) : IsDigit(s[k])
  THEN [ok |-> TRUE, val |-> DecVal(s)]
  ELSE [ok |-> FALSE, val |-> 0]

\* what reading memory the program does not own can give: a crash, or bytes
WildReads ==
  {[crash |-> TRUE, text |-> <<>>], [crash |-> FALSE, text |-> <<>>],
   [crash |-> FALSE, text |-> T_junk]}
\* the reads a step can make: a wild one only where wild says so
ReadsIf(wild) ==
  IF wild THEN WildReads ELSE {[crash |-> FALSE, text |-> <<>>]}

-----------------------------------------------------------------------------
(* The token walks *)

ListKeys == <<T_containerrunning, T_id, T_image>>
StatsKeys == <<T_mem_limit, T_mem_usage, T_name>>
NoVals == <<NULL, NULL, NULL>>

\* KeyLoop that assigns a slot only while it is NULL
KeyLoop_keepfirst(toks, idx, vs, keys, wild) ==
  LET hit == {k \in 1..Len(keys) : json_token_streq(toks[idx], keys[k]) = 0}
  IN IF hit = {}
     THEN [vals |-> vs, i |-> idx, oob |-> FALSE, crash |-> FALSE]
     ELSE LET k == CHOOSE x \in hit : \A y \in hit : x <= y
          IN IF vs[k] # NULL
             THEN [vals |-> vs, i |-> idx + 1, oob |-> FALSE, crash |-> FALSE]
             ELSE IF idx + 1 <= Len(toks)
             THEN [vals |-> [vs EXCEPT ![k] = json_token_tostr(toks, idx + 1)],
                   i |-> idx + 1, oob |-> FALSE, crash |-> FALSE]
             ELSE [vals |-> [vs EXCEPT ![k] =
                                [tok |-> idx + 1, text |-> wild.text]],
                   i |-> idx + 1, oob |-> TRUE, crash |-> wild.crash]

\* the for loop over keys[] of both walks: the first key equal to token idx
\* takes the next token as its value and the walk skips that token.  When
\* token idx is the last one, the next token is outside the array: wild
\* is what that read gives
KeyLoop(toks, idx, vs, keys, wild) ==
  LET hit == {k \in 1..Len(keys) : json_token_streq(toks[idx], keys[k]) = 0}
  IN IF hit = {}
     THEN [vals |-> vs, i |-> idx, oob |-> FALSE, crash |-> FALSE]
     ELSE LET k == CHOOSE x \in hit : \A y \in hit : x <= y
          IN IF idx + 1 <= Len(toks)
             THEN [vals |-> [vs EXCEPT ![k] = json_token_tostr(toks, idx + 1)],
                   i |-> idx + 1, oob |-> FALSE, crash |-> FALSE]
             ELSE [vals |-> [vs EXCEPT ![k] =
                                [tok |-> idx + 1, text |-> wild.text]],
                   i |-> idx + 1, oob |-> TRUE, crash |-> wild.crash]

\* outcome of one switch statement
Switched(e, lvl, r) ==
  [err |-> IF e # "none" THEN e ELSE IF r.crash THEN "Crash" ELSE "none",
   level |-> lvl, vals |-> r.vals, i |-> r.i, oob |-> r.oob]
Untouched(vs, idx) == [vals |-> vs, i |-> idx, oob |-> FALSE, crash |-> FALSE]

\* SwitchList with the key loop run before the root key is looked at
SwitchList_keysfirst(toks, idx, lvl, vs, wild) ==
  LET t == toks[idx]
      r == KeyLoop(toks, idx, vs, ListKeys, wild)
  IN CASE t.type = "OBJECT" ->
            Switched("none", lvl + 1, Untouched(vs, idx))
       [] t.type = "STRING" ->
            IF r.vals = vs /\ lvl = 1 /\ json_token_streq(t, T_containers) # 0
            THEN Switched("RootKey", lvl, Untouched(vs, idx))
            ELSE Switched("none", lvl, r)
       [] OTHER ->
            IF lvl = 0
            THEN Switched("RootType", lvl, Untouched(vs, idx))
            ELSE Switched("none", lvl, Untouched(vs, idx))

\* the switch of json_parser_list on token idx
SwitchList(toks, idx, lvl, vs, wild) ==
  LET t == toks[idx]
  IN CASE t.type = "OBJECT" ->
            Switched("none", lvl + 1, Untouched(vs, idx))
       [] t.type = "STRING" ->
            IF lvl = 1 /\ json_token_streq(t, T_containers) # 0
            THEN Switched("RootKey", lvl, Untouched(vs, idx))
            ELSE Switched("none", lvl, KeyLoop(toks, idx, vs, ListKeys, wild))
       [] OTHER ->
            IF lvl = 0
            THEN Switched("RootType", lvl, Untouched(vs, idx))
            ELSE Switched("none", lvl, Untouched(vs, idx))

\* the switch of json_parser_stats on token idx
SwitchStats(toks, idx, lvl, vs, wild) ==
  LET t == toks[idx]
  IN CASE t.type = "OBJECT" ->
            Switched("none", IF lvl < 2 THEN lvl + 1 ELSE lvl,
                     Untouched(vs, idx))
       [] t.type = "STRING" ->
            IF lvl = 1 /\ json_token_streq(t, T_container) # 0
            THEN Switched("RootKey", lvl, Untouched(vs, idx))
            ELSE Switched("none", lvl, KeyLoop(toks, idx, vs, StatsKeys, wild))
       [] OTHER ->
            IF lvl = 0
            THEN Switched("RootType", lvl, Untouched(vs, idx))
            ELSE Switched("none", lvl, Untouched(vs, idx))

\* whether s starts with p
StartsWith(s, p) == Len(p) <= Len(s) /\ SubSeq(s, 1, Len(p)) = p

\* Retained with the image compared only over the length of the name given
Retained_prefix(vs, image) ==
  /\ vs[1].text = T_true
  /\ ~(image.set /\ ~StartsWith(vs[3].text, image.text))

\* whether json_parser_list keeps a full record: it is running and, when an
\* image name was given, its image is exactly that name
Retained(vs, image) ==
  /\ vs[1].text = T_true
  /\ ~(image.set /\ vs[3].text # image.text)

NoEv == [flushed |-> FALSE, put |-> FALSE, rec |-> NoVals]

\* Flush that counts the record under its full id
Flush_fullid(vs, ht, image) ==
  IF ~podman_array_is_full(vs)
  THEN [err |-> "none", vals |-> vs, hashtable |-> ht, ev |-> NoEv]
  ELSE IF ~Retained(vs, image)
  THEN [err |-> "none", vals |-> NoVals, hashtable |-> ht,
        ev |-> [flushed |-> TRUE, put |-> FALSE, rec |-> vs]]
  ELSE [err |-> "none", vals |-> NoVals,
        hashtable |-> counter_put(ht, vs[2].text),
        ev |-> [flushed |-> TRUE, put |-> TRUE, rec |-> vs]]

\* Flush without the loop that sets the slots back to NULL
Flush_noreset(vs, ht, image) ==
  IF ~podman_array_is_full(vs)
  THEN [err |-> "none", vals |-> vs, hashtable |-> ht, ev |-> NoEv]
  ELSE IF ~Retained(vs, image)
  THEN [err |-> "none", vals |-> vs, hashtable |-> ht,
        ev |-> [flushed |-> TRUE, put |-> FALSE, rec |-> vs]]
  ELSE LET shortid == podman_shortid(vs[2].text)
       IN IF ~shortid.ok
          THEN [err |-> "InvalidIdentifier", vals |-> vs, hashtable |-> ht,
                ev |-> NoEv]
          ELSE [err |-> "none", vals |-> vs,
                hashtable |-> counter_put(ht, shortid.text),
                ev |-> [flushed |-> TRUE, put |-> TRUE, rec |-> vs]]

\* Flush that empties vals[] only after a record that was counted
Flush_keepskipped(vs, ht, image) ==
  IF ~podman_array_is_full(vs)
  THEN [err |-> "none", vals |-> vs, hashtable |-> ht, ev |-> NoEv]
  ELSE IF ~Retained(vs, image)
  THEN [err |-> "none", vals |-> vs, hashtable |-> ht,
        ev |-> [flushed |-> TRUE, put |-> FALSE, rec |-> vs]]
  ELSE LET shortid == podman_shortid(vs[2].text)
       IN IF ~shortid.ok
          THEN [err |-> "InvalidIdentifier", vals |-> vs, hashtable |-> ht,
                ev |-> NoEv]
          ELSE [err |-> "none", vals |-> NoVals,
                hashtable |-> counter_put(ht, shortid.text),
                ev |-> [flushed |-> TRUE, put |-> TRUE, rec |-> vs]]

\* Flush that leaves the id slot as it is when it empties vals[]
Flush_keepid(vs, ht, image) ==
  IF ~podman_array_is_full(vs)
  THEN [err |-> "none", vals |-> vs, hashtable |-> ht, ev |-> NoEv]
  ELSE IF ~Retained(vs, image)
  THEN [err |-> "none", vals |-> <<NULL, vs[2], NULL>>, hashtable |-> ht,
        ev |-> [flushed |-> TRUE, put |-> FALSE, rec |-> vs]]
  ELSE LET shortid == podman_shortid(vs[2].text)
       IN IF ~shortid.ok
          THEN [err |-> "InvalidIdentifier", vals |-> vs, hashtable |-> ht,
                ev |-> NoEv]
          ELSE [err |-> "none", vals |-> <<NULL, vs[2], NULL>>,
                hashtable |-> counter_put(ht, shortid.text),
                ev |-> [flushed |-> TRUE, put |-> TRUE, rec |-> vs]]

\* the end of one iteration of json_parser_list: a full vals[] is a record,
\* which is counted under its short id if retained, and vals[] is emptied
Flush(vs, ht, image) ==
  IF ~podman_array_is_full(vs)
  THEN [err |-> "none", vals |-> vs, hashtable |-> ht, ev |-> NoEv]
  ELSE IF ~Retained(vs, image)
  THEN [err |-> "none", vals |-> NoVals, hashtable |-> ht,
        ev |-> [flushed |-> TRUE, put |-> FALSE, rec |-> vs]]
  ELSE LET shortid == podman_shortid(vs[2].text)
       IN IF ~shortid.ok
          THEN [err |-> "InvalidIdentifier", vals |-> vs, hashtable |-> ht,
                ev |-> NoEv]
          ELSE [err |-> "none", vals |-> NoVals,
                hashtable |-> counter_put(ht, shortid.text),
                ev |-> [flushed |-> TRUE, put |-> TRUE, rec |-> vs]]

-----------------------------------------------------------------------------
(* The run of podman_stats *)

NoStats == [mem_limit |-> 0, mem_usage |-> 0, name |-> <<>>, has_name |-> FALSE]
NoStatus == [set |-> FALSE, total |-> 0, per |-> 1, unit |-> "", containers |-> 0]

\* the parameter json_parser_stats sends: {"name":"<id>"}
Param(id) == <<"{", "n", "a", "m", "e", ":">> \o id \o <<"}">>

Fetch(method, param) == [method |-> method, param |-> param]

\* whether the tokens hold the string s anywhere
HasString(toks, s) ==
  \E k \in 1..Len(toks) : toks[k].type = "STRING" /\ toks[k].text = s

\* plugin_error with a non-zero status, or a crash: the process ends
plugin_error(kind) ==
  /\ pc' = IF kind = "Crash" THEN "crashed" ELSE "fatal"
  /\ err' = kind

Init ==
  /\ pc = "start"
  /\ err = "none"
  /\ image_name \in ImageNames
  /\ tokens = <<>>
  /\ i = 0
  /\ level = 0
  /\ vals = NoVals
  /\ hashtable = counter_create
  /\ ev = NoEv
  /\ nflush = 0
  /\ putids = <<>>
  /\ list_root = FALSE
  /\ containers = 0
  /\ j = 0
  /\ stats = NoStats
  /\ tot_memory \in CallerTotals
  /\ perfdata = <<>>
  /\ usages = <<>>
  /\ fetches = <<>>
  /\ status = NoStatus
  /\ oob = FALSE

\* podman_stats calls json_parser_list, which creates the counter, fetches
\* the list and tokenises it
ListFetch ==
  /\ pc = "start"
  /\ \E r \in Replies(ListDocs) :
       LET tk == json_tokenise(r.json)
       IN /\ hashtable' = counter_create
          /\ fetches' = Append(fetches, Fetch("io.podman.ListContainers", <<>>))
          /\ IF r.ret < 0
             THEN /\ plugin_error("FetchError")
                  /\ UNCHANGED <<tokens, i, level, vals, list_root>>
             ELSE IF ~tk.ok
             THEN /\ plugin_error("MalformedJson")
                  /\ UNCHANGED <<tokens, i, level, vals, list_root>>
             ELSE /\ pc' = "list"
                  /\ err' = "none"
                  /\ tokens' = tk.tokens
                  /\ i' = 1
                  /\ level' = 0
                  /\ vals' = NoVals
                  /\ list_root' = HasString(tk.tokens, T_containers)
  /\ UNCHANGED <<image_name, ev, nflush, putids, containers, j, stats,
                 tot_memory, perfdata, usages, status, oob>>

\* ListStep without the i++ of the for statement
ListStep_sameindex ==
  /\ pc = "list"
  /\ i <= Len(tokens)
  /\ \E wild \in ReadsIf(i = Len(tokens)) :
       LET d == SwitchList(tokens, i, level, vals, wild)
           f == Flush(d.vals, hashtable, image_name)
       IN /\ oob' = (oob \/ d.oob)
          /\ IF d.err # "none"
             THEN /\ plugin_error(d.err)
                  /\ UNCHANGED <<i, level, vals, hashtable, ev, nflush,
                                 putids>>
             ELSE IF f.err # "none"
             THEN /\ plugin_error(f.err)
                  /\ i' = d.i
                  /\ level' = d.level
                  /\ vals' = f.vals
                  /\ UNCHANGED <<hashtable, ev, nflush, putids>>
             ELSE /\ pc' = "list"
                  /\ err' = "none"
                  /\ i' = d.i
                  /\ level' = d.level
                  /\ vals' = f.vals
                  /\ hashtable' = f.hashtable
                  /\ ev' = f.ev
                  /\ nflush' = nflush + (IF f.ev.flushed THEN 1 ELSE 0)
                  /\ putids' = IF f.ev.put
                                THEN Append(putids, f.ev.rec[2].text)
                                ELSE putids
  /\ UNCHANGED <<image_name, tokens, list_root, containers, j, stats,
                 tot_memory, perfdata, usages, fetches, status>>

\* one iteration of the for loop of json_parser_list
ListStep ==
  /\ pc = "list"
  /\ i <= Len(tokens)
  /\ \E wild \in ReadsIf(i = Len(tokens)) :
       LET d == SwitchList(tokens, i, level, vals, wild)
           f == Flush(d.vals, hashtable, image_name)
       IN /\ oob' = (oob \/ d.oob)
          /\ IF d.err # "none"
             THEN /\ plugin_error(d.err)
                  /\ UNCHANGED <<i, level, vals, hashtable, ev, nflush,
                                 putids>>
             ELSE IF f.err # "none"
             THEN /\ plugin_error(f.err)
                  /\ i' = d.i
                  /\ level' = d.level
                  /\ vals' = f.vals
                  /\ UNCHANGED <<hashtable, ev, nflush, putids>>
             ELSE /\ pc' = "list"
                  /\ err' = "none"
                  /\ i' = d.i + 1
                  /\ level' = d.level
                  /\ vals' = f.vals
                  /\ hashtable' = f.hashtable
                  /\ ev' = f.ev
                  /\ nflush' = nflush + (IF f.ev.flushed THEN 1 ELSE 0)
                  /\ putids' = IF f.ev.put
                                THEN Append(putids, f.ev.rec[2].text)
                                ELSE putids
  /\ UNCHANGED <<image_name, tokens, list_root, containers, j, stats,
                 tot_memory, perfdata, usages, fetches, status>>

\* ListEnd that leaves the total as the caller passed it
ListEnd_keeptotal ==
  /\ pc = "list"
  /\ i > Len(tokens)
  /\ pc' = "loop"
  /\ tokens' = <<>>
  /\ i' = 0
  /\ level' = 0
  /\ vals' = NoVals
  /\ ev' = NoEv
  /\ containers' = counter_get_unique_elements(hashtable)
  /\ j' = 0
  /\ UNCHANGED <<err, image_name, hashtable, nflush, putids, list_root,
                 stats, tot_memory, perfdata, usages, fetches, status, oob>>

\* json_parser_list returns; podman_stats zeroes the total and reads the
\* number of unique keys
ListEnd ==
  /\ pc = "list"
  /\ i > Len(tokens)
  /\ pc' = "loop"
  /\ tokens' = <<>>
  /\ i' = 0
  /\ level' = 0
  /\ vals' = NoVals
  /\ ev' = NoEv
  /\ tot_memory' = 0
  /\ containers' = counter_get_unique_elements(hashtable)
  /\ j' = 0
  /\ UNCHANGED <<err, image_name, hashtable, nflush, putids, list_root,
                 stats, perfdata, usages, fetches, status, oob>>

\* ItemKey counting from the last key down
ItemKey_rev(ht, k) == ht.keys[ht.uniq - k]

\* the key podman_stats takes for loop index j: hashtable->keys[j]
ItemKey(ht, k) == ht.keys[k + 1]

\* StatsFetch that, on a failed fetch, notes the error and goes on with the
\* next key
StatsFetch_keepgoing ==
  /\ pc = "loop"
  /\ j < containers
  /\ \E r \in Replies(StatsDocs) :
       LET tk == json_tokenise(r.json)
           shortid == ItemKey(hashtable, j)
       IN /\ stats' = NoStats
          /\ fetches' = Append(fetches,
                 Fetch("io.podman.GetContainerStats", Param(shortid)))
          /\ IF r.ret < 0
             THEN /\ pc' = "loop"
                  /\ err' = "FetchError"
                  /\ j' = j + 1
                  /\ UNCHANGED <<tokens, i, level, vals>>
             ELSE IF ~tk.ok
             THEN /\ plugin_error("MalformedJson")
                  /\ UNCHANGED <<tokens, i, level, vals, j>>
             ELSE /\ pc' = "stats"
                  /\ err' = "none"
                  /\ tokens' = tk.tokens
                  /\ i' = 1
                  /\ level' = 0
                  /\ vals' = NoVals
                  /\ UNCHANGED j
  /\ UNCHANGED <<image_name, hashtable, ev, nflush, putids, list_root,
                 containers, tot_memory, perfdata, usages, status, oob>>

\* StatsFetch that leaves the numbers of stats as the item before left them
StatsFetch_nozero ==
  /\ pc = "loop"
  /\ j < containers
  /\ \E r \in Replies(StatsDocs) :
       LET tk == json_tokenise(r.json)
           shortid == ItemKey(hashtable, j)
       IN /\ stats' = [stats EXCEPT !.name = <<>>, !.has_name = FALSE]
          /\ fetches' = Append(fetches,
                 Fetch("io.podman.GetContainerStats", Param(shortid)))
          /\ IF r.ret < 0
             THEN /\ plugin_error("FetchError")
                  /\ UNCHANGED <<tokens, i, level, vals>>
             ELSE IF ~tk.ok
             THEN /\ plugin_error("MalformedJson")
                  /\ UNCHANGED <<tokens, i, level, vals>>
             ELSE /\ pc' = "stats"
                  /\ err' = "none"
                  /\ tokens' = tk.tokens
                  /\ i' = 1
                  /\ level' = 0
                  /\ vals' = NoVals
  /\ UNCHANGED <<image_name, hashtable, ev, nflush, putids, list_root,
                 containers, j, tot_memory, perfdata, usages, status, oob>>

\* the loop of podman_stats calls json_parser_stats for key j, which zeroes
\* the numbers of stats, fetches the item's document and tokenises it
StatsFetch ==
  /\ pc = "loop"
  /\ j < containers
  /\ \E r \in Replies(StatsDocs) :
       LET tk == json_tokenise(r.json)
           shortid == ItemKey(hashtable, j)
       IN /\ stats' = NoStats
          /\ fetches' = Append(fetches,
                 Fetch("io.podman.GetContainerStats", Param(shortid)))
          /\ IF r.ret < 0
             THEN /\ plugin_error("FetchError")
                  /\ UNCHANGED <<tokens, i, level, vals>>
             ELSE IF ~tk.ok
             THEN /\ plugin_error("MalformedJson")
                  /\ UNCHANGED <<tokens, i, level, vals>>
             ELSE /\ pc' = "stats"
                  /\ err' = "none"
                  /\ tokens' = tk.tokens
                  /\ i' = 1
                  /\ level' = 0
                  /\ vals' = NoVals
  /\ UNCHANGED <<image_name, hashtable, ev, nflush, putids, list_root,
                 containers, j, tot_memory, perfdata, usages, status, oob>>

\* Convert that takes a value that is no number as 0 and goes on
Convert_lenient(vs, st) ==
  LET ml == IF vs[1] # NULL THEN strtol_or_err(vs[1].text)
            ELSE [ok |-> TRUE, val |-> st.mem_limit]
      mu == IF vs[2] # NULL THEN strtol_or_err(vs[2].text)
            ELSE [ok |-> TRUE, val |-> st.mem_usage]
  IN [err |-> "none",
      stats |-> [mem_limit |-> ml.val, mem_usage |-> mu.val,
                 name |-> IF vs[3] # NULL THEN vs[3].text ELSE st.name,
                 has_name |-> (st.has_name \/ vs[3] # NULL)]]

\* the statements after the switch of json_parser_stats: every slot that is
\* set is converted again into stats
Convert(vs, st) ==
  LET ml == IF vs[1] # NULL THEN strtol_or_err(vs[1].text)
            ELSE [ok |-> TRUE, val |-> st.mem_limit]
      mu == IF vs[2] # NULL THEN strtol_or_err(vs[2].text)
            ELSE [ok |-> TRUE, val |-> st.mem_usage]
  IN [err |-> IF ml.ok /\ mu.ok THEN "none" ELSE "InvalidNumeric",
      stats |-> [mem_limit |-> ml.val, mem_usage |-> mu.val,
                 name |-> IF vs[3] # NULL THEN vs[3].text ELSE st.name,
                 has_name |-> (st.has_name \/ vs[3] # NULL)]]

\* one iteration of the for loop of json_parser_stats
StatsStep ==
  /\ pc = "stats"
  /\ i <= Len(tokens)
  /\ \E wild \in ReadsIf(i = Len(tokens)) :
       LET d == SwitchStats(tokens, i, level, vals, wild)
           c == Convert(d.vals, stats)
       IN /\ oob' = (oob \/ d.oob)
          /\ IF d.err # "none"
             THEN /\ plugin_error(d.err)
                  /\ UNCHANGED <<i, level, vals, stats>>
             ELSE IF c.err # "none"
             THEN /\ plugin_error(c.err)
                  /\ i' = d.i
                  /\ level' = d.level
                  /\ vals' = d.vals
                  /\ UNCHANGED stats
             ELSE /\ pc' = "stats"
                  /\ err' = "none"
                  /\ i' = d.i + 1
                  /\ level' = d.level
                  /\ vals' = d.vals
                  /\ stats' = c.stats
  /\ UNCHANGED <<image_name, tokens, hashtable, ev, nflush, putids,
                 list_root, containers, j, tot_memory, perfdata, usages,
                 fetches, status>>

RECURSIVE ToDec(_)
\* what the conversion %lu prints for n
ToDec(n) ==
  IF n < 10 THEN <<Digits[n + 1]>>
  ELSE Append(ToDec(n \div 10), Digits[(n % 10) + 1])

\* the format "%s=%lukB;;;0;%lu " with its three arguments filled in
Format(name, usage, limit) ==
  name \o <<"=">> \o ToDec(usage) \o <<"k", "B", ";", ";", ";", "0", ";">>
    \o ToDec(limit) \o <<" ">>

\* Line with the two numbers rounded to the nearest kB
Line_rounded(name, st) ==
  [name |-> name, usage_kB |-> (st.mem_usage + 500) \div 1000,
   limit_kB |-> (st.mem_limit + 500) \div 1000,
   text |-> Format(name, (st.mem_usage + 500) \div 1000,
                   (st.mem_limit + 500) \div 1000)]

\* the line podman_stats prints for one item: its text, and the three
\* arguments of the fprintf
Line(name, st) ==
  [name |-> name, usage_kB |-> st.mem_usage \div 1000,
   limit_kB |-> st.mem_limit \div 1000,
   text |-> Format(name, st.mem_usage \div 1000, st.mem_limit \div 1000)]

\* json_parser_stats returns; podman_stats prints the item's line, adds its
\* memory to the total and frees its name.  A name that was never set is
\* an uninitialised pointer: wild is what printing it gives
StatsEnd ==
  /\ pc = "stats"
  /\ i > Len(tokens)
  /\ \E wild \in ReadsIf(~stats.has_name) :
       IF ~stats.has_name /\ wild.crash
       THEN /\ plugin_error("Crash")
            /\ UNCHANGED <<tokens, i, level, vals, j, tot_memory, perfdata,
                           usages>>
       ELSE /\ pc' = "loop"
            /\ err' = "none"
            /\ perfdata' = Append(perfdata,
                  Line(IF stats.has_name THEN stats.name ELSE wild.text, stats))
            /\ usages' = Append(usages, stats.mem_usage)
            /\ tot_memory' = tot_memory + stats.mem_usage
            /\ j' = j + 1
            /\ tokens' = <<>>
            /\ i' = 0
            /\ level' = 0
            /\ vals' = NoVals
  /\ UNCHANGED <<image_name, hashtable, ev, nflush, putids, list_root,
                 containers, stats, fetches, status, oob>>

\* the unit shifts of podman_stats: the divisor and the unit printed
Shifts ==
  {[per |-> 1, unit |-> "B"], [per |-> 1000, unit |-> "kB"],
   [per |-> 1000000, unit |-> "MB"], [per |-> 1000000000, unit |-> "GB"]}

\* the loop of podman_stats is over: the summary is produced
Finish ==
  /\ pc = "loop"
  /\ j >= containers
  /\ \E shift \in Shifts :
       status' = [set |-> TRUE, total |-> tot_memory, per |-> shift.per,
                  unit |-> shift.unit, containers |-> containers]
  /\ pc' = "done"
  /\ UNCHANGED <<err, image_name, tokens, i, level, vals, hashtable, ev,
                 nflush, putids, list_root, containers, j, stats,
                 tot_memory, perfdata, usages, fetches, oob>>

Next ==
  \/ ListFetch
  \/ ListStep
  \/ ListEnd
  \/ StatsFetch
  \/ StatsStep
  \/ StatsEnd
  \/ Finish

Spec == Init /\ [][Next]_vars

-----------------------------------------------------------------------------
(* Properties *)

\* a walk is about to take token i through its switch
Walking == pc \in {"list", "stats"} /\ i <= Len(tokens)
\* the root key the walk in progress expects
RootKeyOf == IF pc = "list" THEN T_containers ELSE T_container

\* C1: in both walks level is, at every token, the number of objects open
\* around that token, so that every key sitting directly in a top-level
\* object is compared with the root key and a different one ends the run.
C1_DepthTracksNesting ==
  [][Walking =>
       /\ level = RealDepth(tokens, i)
       /\ (/\ tokens[i].type = "STRING"
           /\ IsKey(tokens, i)
           /\ RealDepth(tokens, i) = 1
           /\ tokens[i].text # RootKeyOf)
          => (pc' = "fatal" /\ err' = "RootKey")]_vars

\* C2: a list reply that nowhere holds the string "containers" never leads
\* to the summary, and to no fetch after the list fetch.
C2_NoRootKeyIsFatal ==
  ~list_root => (pc # "done" /\ Len(fetches) <= 1)

\* C3: a string met at level 1 that is not the root key ends the run with
\* the root key error before the key loop runs, and a string met at level 1
\* never fills a slot.
C3_RootKeyCheckedFirst ==
  [][(Walking /\ tokens[i].type = "STRING" /\ level = 1) =>
       /\ vals' = vals
       /\ tokens[i].text # RootKeyOf =>
            (pc' = "fatal" /\ err' = "RootKey" /\ i' = i)]_vars

\* a stats walk stopped at level 1 on the key "name", which is one of the
\* keys it looks for, with no slot filled
C3_Witness ==
  /\ pc = "fatal"
  /\ err = "RootKey"
  /\ Len(fetches) = 2
  /\ level = 1
  /\ tokens[i].text = T_name
  /\ vals = NoVals

\* C4: a reply whose first token is not an object never gets past that
\* token: the walk ends there with the root type error.
C4_RootMustBeObject ==
  (pc \in {"list", "stats"} /\ Len(tokens) > 0 /\ tokens[1].type # "OBJECT")
    => i = 1

\* json_parser_list has walked all tokens and is about to return
ListDone == pc = "list" /\ i > Len(tokens)

RECURSIVE Unwind(_)
\* the open values of a walk without those that have all their children
Unwind(open) ==
  IF open # <<>> /\ open[Len(open)].left = 0
  THEN Unwind(SubSeq(open, 1, Len(open) - 1))
  ELSE open

RECURSIVE ParentsFrom(_, _, _, _)
\* one pass over the tokens from token k on: open holds the values not yet
\* complete with the number of children each still waits for, acc the
\* parents found so far
ParentsFrom(toks, k, open, acc) ==
  IF k > Len(toks) THEN acc
  ELSE LET o == Unwind(open)
           n == Len(o)
           me == [tok |-> k, left |-> toks[k].size]
       IN IF n = 0
          THEN ParentsFrom(toks, k + 1, <<me>>, Append(acc, 0))
          ELSE ParentsFrom(toks, k + 1,
                 Append([o EXCEPT ![n].left = @ - 1], me),
                 Append(acc, o[n].tok))

\* for every token, the token whose child it is (0 for a top-level value)
Parents(toks) == ParentsFrom(toks, 1, <<>>, <<>>)

\* the tokens are one object whose single key is "containers" and whose value
\* is an array of objects (par is Parents(toks))
ShapedList(toks, par) ==
  /\ Len(toks) >= 3
  /\ toks[1].type = "OBJECT" /\ toks[1].size = 1
  /\ \A k \in 2..Len(toks) : par[k] # 0
  /\ toks[2].type = "STRING" /\ toks[2].text = T_containers
  /\ toks[3].type = "ARRAY"
  /\ \A k \in 4..Len(toks) : par[k] = 3 => toks[k].type = "OBJECT"
\* the container objects of a shaped list
ContainerToks(toks, par) == {k \in 4..Len(toks) : par[k] = 3}
\* the keys named key that object c holds itself
KeyToks(toks, par, c, key) ==
  {m \in 1..Len(toks) :
     par[m] = c /\ toks[m].type = "STRING" /\ toks[m].text = key}
\* the text of the value of the one key named key of object c
ValueOf(toks, par, c, key) ==
  toks[(CHOOSE m \in KeyToks(toks, par, c, key) : TRUE) + 1].text

RECURSIVE Ascending(_)
\* a finite set of numbers as an ascending sequence
Ascending(S) ==
  IF S = {} THEN <<>>
  ELSE LET m == CHOOSE x \in S : \A y \in S : x <= y
       IN <<m>> \o Ascending(S \ {m})

\* number of container objects of a shaped list
NumContainers(toks) == Cardinality(ContainerToks(toks, Parents(toks)))

\* the short ids of the container objects, in document order
ShortIdsInOrder(toks) ==
  LET par == Parents(toks)
      cs == Ascending(ContainerToks(toks, par))
  IN [k \in 1..Len(cs) |->
        podman_shortid(ValueOf(toks, par, cs[k], T_id)).text]

\* what C5 asks of a list reply: shaped, every container object holds each
\* of the three keys once, is running, and the short ids differ pairwise
OneRecordEach(toks) ==
  \E par \in {Parents(toks)} :
  LET cs == ContainerToks(toks, par)
  IN /\ ShapedList(toks, par)
     /\ \A c \in cs :
          /\ \A k \in 1..3 :
               Cardinality(KeyToks(toks, par, c, ListKeys[k])) = 1
          /\ ValueOf(toks, par, c, T_containerrunning) = T_true
          /\ podman_shortid(ValueOf(toks, par, c, T_id)).ok
     /\ \A c1, c2 \in cs :
          c1 # c2 => podman_shortid(ValueOf(toks, par, c1, T_id)).text
                       # podman_shortid(ValueOf(toks, par, c2, T_id)).text
\* no string of the reply other than those keys reads like one of them
NoOtherKeyText(toks) ==
  \E par \in {Parents(toks)} :
  LET cs == ContainerToks(toks, par)
  IN \A m \in 1..Len(toks) :
       (toks[m].type = "STRING" /\ \E k \in 1..3 : toks[m].text = ListKeys[k])
         => par[m] \in cs

\* C5 as stated: with no image filter, a list reply with one record per
\* container object gives one flush per container object and leaves the
\* counter with one key per container, in document order.
C5_OneFlushPerContainer ==
  (ListDone /\ ~image_name.set /\ OneRecordEach(tokens)) =>
    /\ nflush = NumContainers(tokens)
    /\ hashtable.keys = ShortIdsInOrder(tokens)

\* C5 amended: the same, for replies where in addition no other string (a
\* string value, an array element, a key of a nested object) equals one of
\* the three key names.
C5_OneFlushPerContainerNoOtherKeyText ==
  (ListDone /\ ~image_name.set /\ OneRecordEach(tokens)
     /\ NoOtherKeyText(tokens)) =>
    /\ nflush = NumContainers(tokens)
    /\ hashtable.keys = ShortIdsInOrder(tokens)

\* two container objects with different key orders, the first one starting
\* with "image", were walked and flushed
C5_Witness ==
  /\ ListDone
  /\ ~image_name.set
  /\ OneRecordEach(tokens)
  /\ NoOtherKeyText(tokens)
  /\ NumContainers(tokens) = 2
  /\ tokens[5].text = T_image
  /\ tokens[12].text = T_id
  /\ nflush = 2
  /\ hashtable.uniq = 2

\* the first eight characters of a full id
Prefix8(id) == SubSeq(id, 1, 8)

\* C6: at every flush a key is counted if and only if the containerrunning
\* slot reads "true" and no image name was given or the image slot equals
\* it exactly; a flush that counts nothing, and a step that flushes nothing,
\* leave the counter as it was.
C6_RetentionFilter ==
  [][(pc = "list" /\ pc' = "list") =>
       IF ev'.flushed
       THEN IF /\ ev'.rec[1].text = T_true
               /\ (image_name.set => ev'.rec[3].text = image_name.text)
            THEN /\ counter_has(hashtable', Prefix8(ev'.rec[2].text))
                 /\ putids' = Append(putids, ev'.rec[2].text)
                 /\ \/ hashtable' = hashtable
                    \/ hashtable'.keys =
                         Append(hashtable.keys, Prefix8(ev'.rec[2].text))
            ELSE hashtable' = hashtable /\ putids' = putids
       ELSE hashtable' = hashtable /\ putids' = putids]_vars

\* a running container with image "redis" was flushed and not counted, the
\* image name given being "red"
C6_Witness ==
  /\ pc = "list"
  /\ ev.flushed
  /\ ~ev.put
  /\ ev.rec[1].text = T_true
  /\ ev.rec[3].text = T_redis
  /\ image_name.set
  /\ image_name.text = T_red
  /\ hashtable.uniq = 0

RECURSIVE FirstSeen(_)
\* a sequence without the later repetitions of its elements
FirstSeen(s) ==
  IF s = <<>> THEN <<>>
  ELSE LET r == FirstSeen(SubSeq(s, 1, Len(s) - 1))
       IN IF \E k \in 1..Len(r) : r[k] = s[Len(s)] THEN r
          ELSE Append(r, s[Len(s)])

\* the per-item fetches made for key
FetchesFor(key) ==
  {n \in 1..Len(fetches) :
     /\ fetches[n].method = "io.podman.GetContainerStats"
     /\ fetches[n].param = Param(key)}

\* C7: the counter's keys are the eight-character prefixes of the ids
\* counted, each once, in the order they first came; a second id with a
\* prefix already present changes neither their number nor their order, and
\* a finished run has made one per-item fetch for each key and printed one
\* line for each.
C7_IdempotentInsertion ==
  /\ hashtable.keys = FirstSeen([k \in 1..Len(putids) |-> Prefix8(putids[k])])
  /\ hashtable.uniq = Len(hashtable.keys)
  /\ pc = "done" =>
       /\ \A k \in 1..Len(hashtable.keys) :
            Cardinality(FetchesFor(hashtable.keys[k])) = 1
       /\ Len(fetches) = 1 + hashtable.uniq
       /\ Len(perfdata) = hashtable.uniq

\* a finished run whose list held two different ids with the same prefix
C7_Witness ==
  /\ pc = "done"
  /\ putids = <<Id_a1, Id_a2>>
  /\ hashtable.uniq = 1
  /\ Len(perfdata) = 1
  /\ Cardinality(FetchesFor(Prefix8(Id_a1))) = 1

\* C8: the list fetch is the first fetch and the only one of its kind; the
\* per-item fetches follow it one at a time, the k-th one for the k-th key of
\* the counter, and the k-th line is printed after the k-th per-item fetch
\* and before the next.
C8_FetchOrder ==
  /\ pc # "start" =>
       /\ Len(fetches) >= 1
       /\ fetches[1] = Fetch("io.podman.ListContainers", <<>>)
  /\ \A k \in 2..Len(fetches) :
       /\ k - 1 <= hashtable.uniq
       /\ fetches[k] =
            Fetch("io.podman.GetContainerStats", Param(hashtable.keys[k - 1]))
  /\ pc = "list" => Len(fetches) = 1 /\ perfdata = <<>>
  /\ pc = "loop" => Len(fetches) = j + 1 /\ Len(perfdata) = j
  /\ pc = "stats" => Len(fetches) = j + 2 /\ Len(perfdata) = j
  /\ pc = "done" =>
       Len(fetches) = hashtable.uniq + 1 /\ Len(perfdata) = hashtable.uniq

\* a finished run over two keys, the one with the b's counted first
C8_Witness ==
  /\ pc = "done"
  /\ hashtable.keys = <<Prefix8(Id_b1), Prefix8(Id_a1)>>
  /\ Len(fetches) = 3
  /\ fetches[2].param = Param(Prefix8(Id_b1))
  /\ Len(perfdata) = 2
  /\ perfdata[1].name # perfdata[2].name

\* C9: an error ends the run: the step that raises it prints no line and
\* makes no fetch other than the failed one, the run is then at its end
\* without a summary, and nothing happens after it.
C9_FirstErrorAborts ==
  /\ [](err # "none" => (pc \in {"fatal", "crashed"} /\ ~status.set))
  /\ [][err # "none" => FALSE]_vars
  /\ [][err' # "none" =>
          /\ perfdata' = perfdata
          /\ status' = status
          /\ \/ fetches' = fetches
             \/ /\ err' \in {"FetchError", "MalformedJson"}
                /\ Len(fetches') = Len(fetches) + 1]_vars

\* the second item's document held a number that is none: one line was
\* printed before it, and the run ended there
C9_Witness ==
  /\ pc = "fatal"
  /\ err = "InvalidNumeric"
  /\ j = 1
  /\ Len(perfdata) = 1
  /\ Len(fetches) = 3
  /\ hashtable.uniq = 2
  /\ ~status.set

\* C10: no line is printed for an item whose walk ends with the name slot
\* empty.
C10_MissingNameIsFatal ==
  [][(pc = "stats" /\ i > Len(tokens) /\ vals[3] = NULL) =>
       perfdata' = perfdata]_vars

\* json_parser_stats has walked all tokens and is about to return
StatsDone == pc = "stats" /\ i > Len(tokens)

\* the number a slot stands for: 0 for an empty slot
SlotNumber(v) == IF v = NULL THEN 0 ELSE DecVal(v.text)

\* the tokens are {"container": { ... }} and every string that reads like one
\* of the three keys is a key of that inner object (par is Parents(toks))
PlainStats(toks, par) ==
  /\ Len(toks) >= 3
  /\ toks[1].type = "OBJECT" /\ toks[1].size = 1
  /\ \A k \in 2..Len(toks) : par[k] # 0
  /\ toks[2].type = "STRING" /\ toks[2].text = T_container
  /\ toks[3].type = "OBJECT"
  /\ \A m \in 1..Len(toks) :
       (toks[m].type = "STRING" /\ \E k \in 1..3 : toks[m].text = StatsKeys[k])
         => par[m] = 3

\* the token holding the value of the last key named key of the inner object
\* of a plain stats reply, 0 if it has no such key
LastValueTok(toks, par, key) ==
  LET K == KeyToks(toks, par, 3, key)
  IN IF K = {} THEN 0 ELSE (CHOOSE m \in K : \A n \in K : n <= m) + 1

\* C11: when json_parser_stats has walked a reply to its end without error,
\* mem_limit and mem_usage are the numbers of the values captured for them
\* and 0 where none was captured, and name is the captured name; a key the
\* reply does not hold at all gives 0, and in a reply {"container": {...}}
\* whose only strings named like the keys are keys of the inner object the
\* values are those of these keys.
C11_StatsResult ==
  StatsDone =>
    /\ stats.mem_limit = SlotNumber(vals[1])
    /\ stats.mem_usage = SlotNumber(vals[2])
    /\ vals[3] # NULL => (stats.has_name /\ stats.name = vals[3].text)
    /\ ~HasString(tokens, T_mem_limit) => stats.mem_limit = 0
    /\ ~HasString(tokens, T_mem_usage) => stats.mem_usage = 0
    /\ \E par \in {Parents(tokens)} :
         PlainStats(tokens, par) =>
           LET l == LastValueTok(tokens, par, T_mem_limit)
               u == LastValueTok(tokens, par, T_mem_usage)
               n == LastValueTok(tokens, par, T_name)
           IN /\ stats.mem_limit = IF l = 0 THEN 0 ELSE DecVal(tokens[l].text)
              /\ stats.mem_usage = IF u = 0 THEN 0 ELSE DecVal(tokens[u].text)
              /\ n # 0 => stats.name = tokens[n].text

\* the walk of the second item's reply is at its end: the reply holds
\* mem_usage and a name but no mem_limit, the first item's line had a limit
C11_Witness ==
  /\ StatsDone
  /\ j = 1
  /\ perfdata[1].limit_kB = 8232
  /\ vals[1] = NULL
  /\ vals[2].text = N_2999
  /\ stats.mem_limit = 0
  /\ stats.mem_usage = 2999
  /\ stats.name = T_srv2

\* whether s is a base-10 unsigned integer: one digit or more, nothing else
IsUnsigned(s) ==
  /\ Len(s) >= 1
  /\ \A k \in 1..Len(s) :
       s[k] \in {"0", "1", "2", "3", "4", "5", "6", "7", "8", "9"}

\* a numeric slot of json_parser_stats holds text that is no number (vals
\* are those of json_parser_stats once a per-item fetch was made)
BadNumber(vs) ==
  /\ Len(fetches) >= 2
  /\ \E k \in 1..2 : vs[k] # NULL /\ ~IsUnsigned(vs[k].text)

\* C12: the step of json_parser_stats that captures for mem_limit or
\* mem_usage a value that is not a base-10 unsigned integer ends the run
\* with the numeric error: no line is printed for the item, no further item
\* is fetched and no summary is made.
C12_BadNumberIsFatal ==
  /\ [][(pc = "stats" /\ BadNumber(vals')) =>
          /\ pc' = "fatal"
          /\ err' = "InvalidNumeric"
          /\ perfdata' = perfdata
          /\ fetches' = fetches
          /\ j' = j
          /\ tot_memory' = tot_memory]_vars
  /\ [](BadNumber(vals) =>
          /\ pc = "fatal"
          /\ err = "InvalidNumeric"
          /\ Len(perfdata) = j
          /\ Len(fetches) = j + 2
          /\ ~status.set)
  /\ [][BadNumber(vals) => FALSE]_vars

\* the first of two items had "1x" as its mem_limit: the run ended there,
\* with no line printed and the second item not fetched
C12_Witness ==
  /\ pc = "fatal"
  /\ err = "InvalidNumeric"
  /\ vals[1].text = N_1x
  /\ containers = 2
  /\ j = 0
  /\ perfdata = <<>>
  /\ Len(fetches) = 2

RECURSIVE SumSeq(_)
\* the sum of a sequence of numbers
SumSeq(s) == IF s = <<>> THEN 0 ELSE s[1] + SumSeq(Tail(s))

\* C13: from the end of the list pass on, the total is the sum of the
\* mem_usage values the per-item extractions have returned so far, starting
\* from 0 whatever the caller's variable held; when podman_stats returns, the
\* total is the sum over all items and the number of containers of the
\* summary is the number of unique keys of the counter and the number of
\* lines printed.
C13_AggregateTotals ==
  /\ pc \in {"loop", "stats", "done"} => tot_memory = SumSeq(usages)
  /\ pc = "done" =>
       /\ status.set
       /\ status.total = SumSeq(usages)
       /\ Len(usages) = status.containers
       /\ status.containers = hashtable.uniq
       /\ status.containers = Len(hashtable.keys)
       /\ status.containers = Len(perfdata)

\* podman_stats has returned after two items with different memory
C13_Witness ==
  /\ pc = "done"
  /\ usages = <<8310784, 2999>>
  /\ tot_memory = 8313783
  /\ status.total = 8313783
  /\ status.containers = 2
  /\ hashtable.uniq = 2
  /\ Len(perfdata) = 2

\* whether u is the decimal text, without leading zeros, of the largest
\* whole number of thousands in n
IsThousandsOf(u, n) ==
  /\ IsUnsigned(u)
  /\ Len(u) = 1 \/ u[1] # "0"
  /\ 1000 * DecVal(u) <= n
  /\ n < 1000 * (DecVal(u) + 1)

\* whether text reads <name>=<U>kB;;;0;<L> and a space, with U and L the
\* whole thousands of usage and limit
IsLineOf(text, name, usage, limit) ==
  \E nu, nl \in 1..Len(text) :
    LET a == Len(name) + 1
        u == SubSeq(text, a + 1, a + nu)
        b == a + nu + 7
        l == SubSeq(text, b + 1, b + nl)
    IN /\ Len(text) = b + nl + 1
       /\ SubSeq(text, 1, Len(name)) = name
       /\ text[a] = "="
       /\ SubSeq(text, a + nu + 1, b) = <<"k", "B", ";", ";", ";", "0", ";">>
       /\ text[Len(text)] = " "
       /\ IsThousandsOf(u, usage)
       /\ IsThousandsOf(l, limit)

\* C14: every step that prints prints one line, after those printed before:
\* the name returned for the item, "=", mem_usage divided by 1000 and cut
\* to a whole number, "kB;;;0;", mem_limit divided by 1000 and cut to a whole
\* number, and a space; the same step adds the undivided mem_usage to the
\* total.
C14_TruncatedKilobytes ==
  [][perfdata' # perfdata =>
       /\ StatsDone
       /\ Len(perfdata') = Len(perfdata) + 1
       /\ SubSeq(perfdata', 1, Len(perfdata)) = perfdata
       /\ \E l \in {perfdata'[Len(perfdata')]} :
            /\ stats.has_name => l.name = stats.name
            /\ IsLineOf(l.text, l.name, stats.mem_usage, stats.mem_limit)
       /\ tot_memory' = tot_memory + stats.mem_usage]_vars

\* the line of an item named srv1 with mem_usage 8310784 and mem_limit
\* 8232525 was printed: 8310 and 8232, where rounding gives 8311 and 8233
C14_Witness ==
  /\ Len(perfdata) = 1
  /\ usages = <<8310784>>
  /\ tot_memory = 8310784
  /\ perfdata[1].text =
       <<"s", "r", "v", "1", "=", "8", "3", "1", "0", "k", "B", ";", ";", ";", "0", ";", "8", "2", "3", "2", " ">>

\* the slots token i of the list walk fills: those whose key name it is
SlotsOf(t) == {k \in 1..3 : t.type = "STRING" /\ t.text = ListKeys[k]}

\* C15: while json_parser_list walks, at the end of every step one slot at
\* least is empty; a step whose token fills the one slot that was still
\* missing leaves all three empty and is a flush, whether its record was
\* counted or not; any other step is no flush and changes no slot but the
\* one its token fills.
C15_FlushAndReset ==
  /\ [](pc = "list" => \E k \in 1..3 : vals[k] = NULL)
  /\ [][(pc = "list" /\ pc' = "list") =>
          IF /\ SlotsOf(tokens[i]) # {}
             /\ \A m \in (1..3) \ SlotsOf(tokens[i]) : vals[m] # NULL
          THEN /\ vals' = NoVals
               /\ ev'.flushed
               /\ nflush' = nflush + 1
               /\ \A m \in (1..3) \ SlotsOf(tokens[i]) : ev'.rec[m] = vals[m]
               /\ ~ev'.put => hashtable' = hashtable
          ELSE /\ ~ev'.flushed
               /\ nflush' = nflush
               /\ hashtable' = hashtable
               /\ \A m \in (1..3) \ SlotsOf(tokens[i]) : vals'[m] = vals[m]
               /\ \A m \in SlotsOf(tokens[i]) : vals'[m] # NULL]_vars

\* a container that is not running was flushed without being counted, and
\* the three slots are empty after it
C15_Witness ==
  /\ pc = "list"
  /\ ev.flushed
  /\ ~ev.put
  /\ ev.rec[1].text = T_false
  /\ ev.rec[2] # NULL
  /\ ev.rec[3] # NULL
  /\ vals = NoVals
  /\ nflush = 1
  /\ hashtable.uniq = 0

\* what slot k holds after a step of the list walk, as the flush of that
\* step, if there was one, saw it
SlotAfter(k) == IF ev'.flushed THEN ev'.rec[k] ELSE vals'[k]

\* C16 as stated: a step of json_parser_list does not change a slot that
\* was filled since the last flush, whatever its token.
C16_FirstMatchWins ==
  [][(pc = "list" /\ pc' = "list") =>
       \A k \in 1..3 : vals[k] # NULL => SlotAfter(k) = vals[k]]_vars

\* C16 amended: the last match wins.  A step of json_parser_list on a
\* string with the name of a key gives that key's slot the token after it,
\* whether the slot was empty or filled since the last flush, and leaves
\* the other slots as they were.
C16_LastMatchWins ==
  [][(pc = "list" /\ pc' = "list") =>
       \A k \in 1..3 :
         IF k \in SlotsOf(tokens[i])
         THEN /\ SlotAfter(k).tok = i + 1
              /\ i + 1 <= Len(tokens) => SlotAfter(k).text = tokens[i + 1].text
         ELSE SlotAfter(k) = vals[k]]_vars

\* a container object that holds "id" twice, first with the a's and then
\* with the b's, was flushed and counted under the b's
C16_Witness ==
  /\ pc = "list"
  /\ Len(tokens) = 12
  /\ tokens[5].text = T_id
  /\ tokens[6].text = Id_a2
  /\ tokens[9].text = T_id
  /\ tokens[10].text = Id_b1
  /\ nflush = 1
  /\ ev.flushed
  /\ ev.put
  /\ ev.rec[2] = [tok |-> 10, text |-> Id_b1]
  /\ hashtable.keys = <<Prefix8(Id_b1)>>

\* C17: neither walk reads a token outside tokens[0 .. ntoken - 1]: no read
\* past the end has happened, and no slot holds a token beyond the last one
\* of the walk in progress.
C17_TokenIndexInBounds ==
  /\ ~oob
  /\ pc \in {"list", "stats"} => \A k \in 1..3 : vals[k].tok <= Len(tokens)

\* the three values of record rec were captured from keys of object c: each
\* is the token after a key of c with the slot's name
FromObject(toks, par, rec, c) ==
  \A k \in 1..3 :
    /\ rec[k].tok >= 2
    /\ rec[k].tok <= Len(toks)
    /\ par[rec[k].tok - 1] = c
    /\ toks[rec[k].tok - 1].type = "STRING"
    /\ toks[rec[k].tok - 1].text = ListKeys[k]
    /\ rec[k].text = toks[rec[k].tok].text

\* the objects of the tokens
ObjectToks(toks) == {c \in 1..Len(toks) : toks[c].type = "OBJECT"}

\* the reply is {"containers": [ ... ]}, every container object holds each
\* of the three keys once and no other string reads like one of them (par
\* is Parents(toks))
EachKeyOnceIn(toks, par) ==
  /\ ShapedList(toks, par)
  /\ \A c \in ContainerToks(toks, par) :
       \A k \in 1..3 : Cardinality(KeyToks(toks, par, c, ListKeys[k])) = 1
  /\ \A m \in 1..Len(toks) :
       (toks[m].type = "STRING" /\ \E k \in 1..3 : toks[m].text = ListKeys[k])
         => par[m] \in ContainerToks(toks, par)
EachKeyOnce(toks) == \E par \in {Parents(toks)} : EachKeyOnceIn(toks, par)

\* C18 as stated: whatever the list reply, the three values of every flush
\* were captured from keys of one and the same object.
C18_RecordIntegrity ==
  [][(pc = "list" /\ pc' = "list" /\ ev'.flushed) =>
       \E par \in {Parents(tokens)} :
         \E c \in ObjectToks(tokens) : FromObject(tokens, par, ev'.rec, c)]_vars

\* C18 amended: the same, for list replies {"containers": [ ... ]} whose
\* container objects hold each of the three keys once and in which no
\* other string equals one of the three key names; the object is then one
\* of the container objects.
C18_RecordIntegrityEachKeyOnce ==
  [][(pc = "list" /\ pc' = "list" /\ ev'.flushed) =>
       \E par \in {Parents(tokens)} :
         EachKeyOnceIn(tokens, par) =>
           \E c \in ContainerToks(tokens, par) :
             FromObject(tokens, par, ev'.rec, c)]_vars

\* the second of two container objects, its keys in another order than the
\* first one's, was flushed with its own three values
C18_Witness ==
  /\ pc = "list"
  /\ Len(tokens) = 17
  /\ EachKeyOnce(tokens)
  /\ nflush = 2
  /\ ev.flushed
  /\ tokens[5].text = T_containerrunning
  /\ tokens[12].text = T_image
  /\ FromObject(tokens, Parents(tokens), ev.rec, 11)

\* a small set of list replies: lists of plain container objects and of one
\* that lacks its image, and the replies with an unexpected root
FewObjs ==
  {PlainObj, OtherObj,
   ContainerObj(<<1,2,3>>, T_true, Id_a1, T_redis, "noimage")}
FewListDocs ==
  {ListOf(cs) : cs \in SeqUpTo(FewObjs, MaxContainers)} \cup OddListDocs

\* ListFetch with a reply of the small set
ListFetchFew ==
  /\ ListFetch
  /\ tokens' \in {<<>>} \cup {json_tokenise(d).tokens : d \in FewListDocs}

NextFew ==
  \/ ListFetchFew
  \/ ListStep
  \/ ListEnd
  \/ StatsFetch
  \/ StatsStep
  \/ StatsEnd
  \/ Finish

\* json_parser_list is one sequential loop: while it has a next iteration or
\* its return to take, it takes it
FairSpec == Init /\ [][NextFew]_vars /\ WF_vars(ListStep \/ ListEnd)

=============================================================================
